---- MODULE Spec2Model ----
(***************************************************************************)
(* Session orchestrator of the kiosk scanner edge node (src/edge-node/     *)
(* app.py): the single ACTIVE_SESSION slot, the fallback SCANNER_STATE,    *)
(* the non-reentrant state_lock, the socket handlers, the session thread,  *)
(* the expiration monitor, the grace timer and the delayed cleanups.       *)
(*                                                                         *)
(* Every `with state_lock:` block is one atomic step guarded by the lock   *)
(* being free.  Two units keep the lock in the variable `lock` beyond one  *)
(* step: grace_period_cleanup, which calls cleanup_session with the lock   *)
(* held, and handle_connect, which emits its replies with the lock held.   *)
(***************************************************************************)
EXTENDS Integers, Sequences, FiniteSets, TLC

VARIABLES
    env,             \* the environment of one run: clients, inputs, budgets
    now,             \* time.time(), in seconds
    ACTIVE_SESSION,  \* the module-level dict ACTIVE_SESSION
    SCANNER_STATE,   \* the module-level dict SCANNER_STATE
    stopSet,         \* the threading.Event objects that are set
    nextId,          \* the next uuid4 / Event object to be allocated
    lock,            \* state_lock: Free, or the timer or handler holding it
    connected,       \* the socket ids currently connected
    handler,         \* per client: the start_scan_session handler in flight
    active_scans,    \* the module-level dict active_scans: the scan ids registered
    scan,            \* legacy start_scan: handlers in flight, scan threads, stop events
    sessions,        \* cloud SessionManager: the session dicts, by session id
    cache,           \* cloud SessionScopedCache.cache: the session ids that have entries
    request,         \* cloud: per worker, the SessionManager call in flight
    age,             \* cloud: per session, the thresholds its age has passed
    thread,          \* per session: run_session and the capture loop driver
    monitor,         \* per session: monitor_session_expiration
    grace,           \* per disconnect: grace_period_cleanup
    cleanups,        \* per session: delayed_cleanup threads still sleeping
    rebound,         \* history: a connect rebound the session after the last grace start
    last             \* history: the step just taken, its input and its reply

vars == <<env, sessions, cache, request, age, active_scans, scan, now, ACTIVE_SESSION, SCANNER_STATE, stopSet, nextId, lock,
          connected, handler, thread, monitor, grace, cleanups, rebound, last>>

-----------------------------------------------------------------------------
(* Bounds of the model *)

NumClients == 1        \* sockets of Spec, FairSpec and ScenarioSpec
MaxSessions == 1       \* sessions created in one run of these
MaxGrace == 2          \* grace timers started in one run
MaxCancels == 1        \* accepted cancels per session
QueueLen == 2          \* fingers in the queue of a start command
RaceClients == 2       \* sockets of RaceSpec
RaceSessions == 2      \* sessions created in one run of RaceSpec
RaceQueueLen == 1      \* fingers in the queue of a start command of RaceSpec
ScenarioQueueLen == 10  \* fingers f1..f10 of the scenarios
ExpiryQueueLen == 1    \* fingers of the session followed to its expiry
ExpiryGrace == 1       \* grace timers started while it is followed
StaleSessions == 2     \* sessions created one after the other in StaleSpec
StaleQueueLen == 1     \* fingers in the queue of a start command of StaleSpec
StaleGrace == 2        \* grace timers started in one run of StaleSpec
StaleCancels == 1      \* cancels accepted per session in StaleSpec

\* Reconnection: two socket ids (a reconnecting client gets a new one), one
\* session, one grace timer, the clock sampled at the start and at the end of
\* the grace period.
ReconnectClients == 2
ReconnectQueueLen == 1
ReconnectGrace == 1

\* Registry operations: one socket, one session of RegistryQueueLen fingers,
\* no timer; a returned snapshot is compared over every content of
\* captured_fingers of up to MaxArtifacts artifacts.
RegistryQueueLen == 2
MaxArtifacts == 2

\* Legacy single-finger scans: LegacyClients sockets sending start_scan, and
\* MaxScans scan ids allocated in one run.
LegacyClients == 2
MaxScans == 2

\* Cloud workflow: CloudWorkers request threads working on CloudSessions
\* sessions, each fingerprint named by one of CloudFingers fingers.
CloudWorkers == 2
CloudSessions == 1
CloudFingers == 1

(* Program constants *)

None == -1
GRACE_SECONDS == 30
ABSOLUTE_TIMEOUT == 1800
INACTIVITY_TIMEOUT == 600
CHECK_INTERVAL == 60

Free == None

\* The instants at which the clock is sampled: the start, the end of a grace
\* window begun at the start, and an instant past the inactivity window.
TimePoints == {0, GRACE_SECONDS, INACTIVITY_TIMEOUT + GRACE_SECONDS}

FingerQueue(n) == [i \in 1..n |-> i]

-----------------------------------------------------------------------------
(* Values *)

\* ACTIVE_SESSION as the module defines it (keys "status", "created_at" and
\* "last_activity_time" are absent until first written: None here).
IdleSession ==
    [ session_id |-> None, participant_id |-> None, socket_sid |-> None,
      finger_queue |-> <<>>, current_index |-> 0, captured_fingers |-> <<>>,
      stop_event |-> None, thread |-> None, state |-> "idle",
      last_status |-> None, last_preview_frame |-> None,
      grace_period_active |-> FALSE, disconnected_at |-> None,
      created_at |-> None, last_activity_time |-> None,
      status |-> "unset" ]

\* SCANNER_STATE: the keys the session flow distinguishes (finger_name, hint,
\* metrics and timestamp travel with status and are not told apart here).
IdleScanner ==
    [scan_id |-> None, status |-> "idle", last_preview_frame_b64 |-> None]

NoHandler == [pc |-> "idle", fq |-> <<>>, ret |-> None]
NoThread ==
    [ pc |-> "none", ret |-> None, room |-> None, fq |-> <<>>, stop |-> None,
      results |-> <<>>, complete |-> <<>> ]
NoMonitor == [pc |-> "none", wake |-> 0, reason |-> ""]
NoGrace == [pc |-> "none", wake |-> 0, sid |-> None]

NoScans ==
    [ next |-> 1, handler |-> [c \in {} |-> None],
      run |-> [k \in 1..MaxScans |-> "none"], stopped |-> {} ]

\* A session id that create_session has not issued yet, and a worker with no
\* SessionManager call in flight.
NoCloudSession ==
    [ status |-> "none", listed |-> FALSE, fingerprints |-> {}, completed |-> FALSE ]
NoRequest == [op |-> "none", sid |-> None, finger |-> None]

Note(op, reply) == [op |-> op, reply |-> reply]
Quiet == Note("step", "")

\* The state after the module was loaded, with the budgets of the environment:
\* sockets, finger queues, sessions, grace timers, cancels per session and the
\* instants at which the clock is sampled.
Env(nClients, queues, nSessions, nGrace, nCancels, times) ==
    [ clients |-> 1..nClients, queues |-> queues, sessions |-> 1..nSessions,
      ids |-> {None} \cup (1..(nSessions + 1)),
      graces |-> 1..nGrace, cancels |-> nCancels, times |-> times ]

\* The module as loaded, in the environment e.
InitIn(e) ==
    /\ env = e
    /\ active_scans = {}
    /\ sessions = [i \in 1..CloudSessions |-> NoCloudSession]
    /\ cache = {}
    /\ request = [w \in 1..CloudWorkers |-> NoRequest]
    /\ age = [i \in 1..CloudSessions |-> 0]
    /\ scan = [NoScans EXCEPT !.handler = [c \in e.clients |-> None]]
    /\ now = 0
    /\ ACTIVE_SESSION = IdleSession
    /\ SCANNER_STATE = IdleScanner
    /\ stopSet = {}
    /\ nextId = 1
    /\ lock = Free
    /\ connected = {}
    /\ handler = [c \in e.clients |-> NoHandler]
    /\ thread = [s \in e.sessions |-> NoThread]
    /\ monitor = [s \in e.sessions |-> NoMonitor]
    /\ grace = [g \in e.graces |-> NoGrace]
    /\ cleanups = [s \in e.sessions |-> 0]
    /\ rebound = FALSE
    /\ last = Quiet

InitEnv(nClients, queues, nSessions, nGrace, nCancels, times) ==
    InitIn(Env(nClients, queues, nSessions, nGrace, nCancels, times))

InitWith(nClients, queues, nSessions, nGrace, nCancels) ==
    InitEnv(nClients, queues, nSessions, nGrace, nCancels, TimePoints)

\* One socket and one session, with every background unit and the clock.
Init ==
    InitWith(NumClients, {<<>>, FingerQueue(QueueLen)}, MaxSessions, MaxGrace, MaxCancels)

\* The instants of a session that is kept alive past the absolute lifetime.
ExpiryTimes ==
    { 0, GRACE_SECONDS, INACTIVITY_TIMEOUT + GRACE_SECONDS,
      2 * INACTIVITY_TIMEOUT + GRACE_SECONDS, ABSOLUTE_TIMEOUT + GRACE_SECONDS }

\* One socket and one session followed over the whole absolute lifetime.
InitExpiry ==
    InitEnv(NumClients, {FingerQueue(ExpiryQueueLen)}, MaxSessions, ExpiryGrace,
            MaxCancels, ExpiryTimes)

\* Two socket ids around one session whose holder disconnects and reconnects.
InitReconnect ==
    InitEnv(ReconnectClients, {FingerQueue(ReconnectQueueLen)}, MaxSessions,
            ReconnectGrace, 0, {0, GRACE_SECONDS})

\* One socket and one session at one instant, for the operations of the
\* registry.
InitRegistry ==
    InitEnv(NumClients, {FingerQueue(RegistryQueueLen)}, MaxSessions, 0, MaxCancels, {0})

\* The registry's operations with a client whose cancel commands never carry
\* a session id.
InitNoId ==
    InitIn([Env(NumClients, {FingerQueue(RegistryQueueLen)}, MaxSessions, 0,
                MaxCancels, {0}) EXCEPT !.ids = {None}])

\* Sockets that use the deprecated start_scan / stop_scan commands only.
InitLegacy == InitEnv(LegacyClients, {<<>>}, MaxSessions, 0, 0, {0})

\* The cloud workflow on its own.
InitCloud == InitEnv(NumClients, {<<>>}, MaxSessions, 0, 0, {0})

\* One socket that runs a second session after the first, with the timers of
\* the first still pending.
InitStale ==
    InitEnv(NumClients, {FingerQueue(StaleQueueLen)}, StaleSessions, StaleGrace,
            StaleCancels, {0, INACTIVITY_TIMEOUT + GRACE_SECONDS})

\* Several sockets and sessions within the first seconds of a run: no timer
\* comes due.
InitRace ==
    InitWith(RaceClients, {<<>>, FingerQueue(RaceQueueLen)}, RaceSessions, 0, MaxCancels)

\* The scenarios of the specification: a queue f1..f10.
InitScenario ==
    InitWith(NumClients, {FingerQueue(ScenarioQueueLen)}, MaxSessions, 1, MaxCancels)

-----------------------------------------------------------------------------
(* Registry operations *)

\* cleanup_session that wipes the data but leaves the slot occupied.
CleanedSessionKeepsSlot(S) ==
    [ S EXCEPT !.captured_fingers = <<>>, !.last_preview_frame = None ]

\* ACTIVE_SESSION.update({...}) of cleanup_session: every key it lists is reset;
\* the keys "status", "end_time" and "error" are not among them.
CleanedSession(S) ==
    [ S EXCEPT !.session_id = None, !.participant_id = None, !.socket_sid = None,
               !.finger_queue = <<>>, !.current_index = 0, !.captured_fingers = <<>>,
               !.stop_event = None, !.thread = None, !.state = "idle",
               !.last_status = None, !.last_preview_frame = None,
               !.grace_period_active = FALSE, !.disconnected_at = None,
               !.last_activity_time = None, !.created_at = None ]

\* A stop event that is looked up but never set.
SignalStopNever(S, set) == set

\* `if ACTIVE_SESSION["stop_event"]: ACTIVE_SESSION["stop_event"].set()`, as
\* cleanup_session, handle_cancel_scan_session and grace_period_cleanup do it.
SignalStop(S, set) == IF S.stop_event # None THEN set \cup {S.stop_event} ELSE set

\* A cleanup_session that clears the stop event instead of setting it.
cleanup_session_clears ==
    IF ACTIVE_SESSION.session_id = None
    THEN UNCHANGED <<ACTIVE_SESSION, SCANNER_STATE, stopSet>>
    ELSE /\ stopSet' = stopSet \ {ACTIVE_SESSION.stop_event}
         /\ ACTIVE_SESSION' = CleanedSession(ACTIVE_SESSION)
         /\ SCANNER_STATE' = IdleScanner

\* The body of cleanup_session, run with state_lock acquired by the call itself.
cleanup_session ==
    IF ACTIVE_SESSION.session_id = None
    THEN UNCHANGED <<ACTIVE_SESSION, SCANNER_STATE, stopSet>>
    ELSE /\ stopSet' = SignalStop(ACTIVE_SESSION, stopSet)
         /\ ACTIVE_SESSION' = CleanedSession(ACTIVE_SESSION)
         /\ SCANNER_STATE' = IdleScanner

\* The log line of a cleanup_session call: a session was destroyed, or there
\* was none ("cleanup_session called but no active session").
CleanupNote ==
    Note("cleanup", IF ACTIVE_SESSION.session_id = None THEN "no active session"
                    ELSE "destroyed")

\* ACTIVE_SESSION.update({...}) of create_session.
CreatedSession(S, session_id, socket_sid, participant_id, finger_list, t) ==
    [ S EXCEPT !.session_id = session_id, !.participant_id = participant_id,
               !.socket_sid = socket_sid, !.finger_queue = finger_list,
               !.current_index = 0, !.captured_fingers = <<>>,
               !.stop_event = session_id, !.state = "active",
               !.grace_period_active = FALSE, !.disconnected_at = None,
               !.created_at = t, !.last_activity_time = t ]

\* create_session: a fresh uuid and a fresh Event (both numbered nextId), the
\* registry update and the start of the expiration monitor, under one lock.
create_session(socket_sid, participant_id, finger_list) ==
    /\ ACTIVE_SESSION' = CreatedSession(ACTIVE_SESSION, nextId, socket_sid,
                                        participant_id, finger_list, now)
    /\ monitor' = [monitor EXCEPT ![nextId] =
                      [pc |-> "sleep", wake |-> now + CHECK_INTERVAL, reason |-> ""]]
    /\ nextId' = nextId + 1

\* The comparison made on the id alone, as after
\* `session_id, stop_event = create_session(...)`.
SessionIdEqById(registry_id, returned) == registry_id = returned.id

\* `ACTIVE_SESSION["session_id"] == session_id` in run_session, where session_id
\* is what create_session returned: the tuple (session_id, stop_event).  A str
\* and a tuple never compare equal.
SessionIdEq(registry_id, returned) == FALSE

\* A start handler that never finds a session in progress.
session_never_active(S) == FALSE

\* handle_start_scan_session: `ACTIVE_SESSION["session_id"] is not None`.
session_already_active(S) == S.session_id # None

\* touch_session_activity
touch_session_activity(S, t) ==
    IF S.session_id # None THEN [S EXCEPT !.last_activity_time = t] ELSE S

\* advance_to_next_finger: the registry after the call (309-312).
advance_to_next_finger(S, t) ==
    [touch_session_activity(S, t) EXCEPT !.current_index = @ + 1]

\* advance_to_next_finger: the value returned for the advanced registry
\* (313-322); the queue is indexed from 1 here and from 0 in the source.
next_finger(S) ==
    IF S.current_index < Len(S.finger_queue)
    THEN S.finger_queue[S.current_index + 1] ELSE None

\* A get_session_state that hands out the captured artifacts themselves.
get_session_state_with_captures(S) ==
    [ session_id |-> S.session_id, state |-> S.state,
      current_finger |-> next_finger(S),
      progress |-> [current |-> S.current_index, total |-> Len(S.finger_queue)],
      captured_count |-> Len(S.captured_fingers),
      captured_fingers |-> S.captured_fingers ]

\* get_session_state: the snapshot returned (293-302).
get_session_state(S) ==
    [ session_id |-> S.session_id, state |-> S.state,
      current_finger |-> next_finger(S),
      progress |-> [current |-> S.current_index, total |-> Len(S.finger_queue)],
      captured_count |-> Len(S.captured_fingers) ]

\* scanner_progress: the response of GET /api/scanner/progress, with the keys
\* of SCANNER_STATE kept here.
scanner_progress(X) ==
    [ scan_id |-> X.scan_id, status |-> X.status,
      last_preview_frame_b64 |-> X.last_preview_frame_b64 ]

\* handle_cancel_scan_session: "Update status" (811-813).
CancelledSession(S) == [S EXCEPT !.status = "cancelled"]

\* A cancel handler that never verifies the id it is given.
cancel_unverified(provided, active) == FALSE

\* A cancel handler for which a missing id does not match the session.
cancel_requires_id(provided, active) == provided # active

\* handle_cancel_scan_session: `provided_session_id and provided_session_id !=
\* active_session_id` (a missing id is falsy).
cancel_mismatch(provided, active) == provided # None /\ provided # active

\* grace_period_cleanup: grace still active and the window elapsed.
grace_expired(S, t) ==
    /\ S.grace_period_active
    /\ t - S.disconnected_at >= GRACE_SECONDS

\* handle_connect that rebinds the socket but leaves the grace period pending.
RebindKeepsGrace(S, sid) == [S EXCEPT !.socket_sid = sid]

\* handle_connect that clears the grace period but keeps the old socket bound.
RebindKeepsSocket(S, sid) == [S EXCEPT !.grace_period_active = FALSE]

\* handle_connect: the registry after a connect while a session exists.
Rebind(S, sid) == [S EXCEPT !.grace_period_active = FALSE, !.socket_sid = sid]

\* A monitor that tests the inactivity threshold before the absolute one.
expiry_reason_inactivity_first(S, t) ==
    IF t - S.last_activity_time > INACTIVITY_TIMEOUT THEN "INACTIVITY_TIMEOUT"
    ELSE IF t - S.created_at > ABSOLUTE_TIMEOUT THEN "MAX_LIFETIME_REACHED"
    ELSE ""

\* monitor_session_expiration: the reason for which a tick expires the session.
expiry_reason(S, t) ==
    IF t - S.created_at > ABSOLUTE_TIMEOUT THEN "MAX_LIFETIME_REACHED"
    ELSE IF t - S.last_activity_time > INACTIVITY_TIMEOUT THEN "INACTIVITY_TIMEOUT"
    ELSE ""

\* ws_emit of run_session: the SCANNER_STATE update made under state_lock after
\* the emit (scanner_status and preview_frame only).
ws_emit_state(X, event_name, scan_id, status, frame) ==
    IF event_name = "scanner_status"
    THEN [X EXCEPT !.scan_id = scan_id, !.status = status]
    ELSE IF event_name = "preview_frame"
    THEN [X EXCEPT !.last_preview_frame_b64 = frame]
    ELSE X

-----------------------------------------------------------------------------
(* Socket handlers *)

\* The owner name under which the connect handler of socket c holds state_lock
\* (a grace timer holds it under its own positive number).
Holding(c) == 0 - (c + 1)

\* What handle_connect sends back for the session in the registry (386-406):
\* session_started and next_finger while fingers remain, then the stored
\* last_status and last_preview_frame when they are set.
Resent(S) ==
    IF S.current_index < Len(S.finger_queue)
    THEN CASE S.last_status # None /\ S.last_preview_frame # None
                -> "session_started,scanner_status,preview_frame"
           [] S.last_status # None /\ S.last_preview_frame = None
                -> "session_started,scanner_status"
           [] S.last_status = None /\ S.last_preview_frame # None
                -> "session_started,preview_frame"
           [] OTHER -> "session_started"
    ELSE ""

\* handle_connect: the whole body, its emissions included, is inside
\* `with state_lock` (372-415); this step takes the lock, updates the
\* registry and starts emitting.
Connect(c) ==
    /\ c \in env.clients \ connected
    /\ lock = Free
    /\ lock' = Holding(c)
    /\ connected' = connected \cup {c}
    /\ IF ACTIVE_SESSION.session_id # None
       THEN /\ ACTIVE_SESSION' = Rebind(ACTIVE_SESSION, c)
            /\ rebound' = TRUE
            /\ last' = Note("connect", Resent(ACTIVE_SESSION))
       ELSE /\ UNCHANGED <<ACTIVE_SESSION, rebound>>
            /\ last' = Note("connect", "idle")
    /\ UNCHANGED <<env, sessions, cache, request, age, active_scans, scan, now, SCANNER_STATE, stopSet, nextId, handler, thread,
                   monitor, grace, cleanups>>

\* handle_connect returns: the emissions are done and state_lock is released.
ConnectReturn(c) ==
    /\ lock = Holding(c)
    /\ lock' = Free
    /\ UNCHANGED <<env, sessions, cache, request, age, active_scans, scan, now, ACTIVE_SESSION, SCANNER_STATE, stopSet, nextId, connected,
                   handler, thread, monitor, grace, cleanups, rebound, last>>

FreeGrace == {g \in env.graces : grace[g].pc = "none"}
NextGrace == CHOOSE g \in FreeGrace : \A h \in FreeGrace : g <= h

\* handle_disconnect
Disconnect(c) ==
    /\ c \in connected
    /\ lock = Free
    /\ connected' = connected \ {c}
    /\ IF ACTIVE_SESSION.session_id # None /\ ACTIVE_SESSION.socket_sid = c
       THEN /\ FreeGrace # {}
            /\ ACTIVE_SESSION' = [ACTIVE_SESSION EXCEPT !.grace_period_active = TRUE,
                                                        !.disconnected_at = now]
            /\ grace' = [grace EXCEPT ![NextGrace] =
                            [pc |-> "sleep", wake |-> now + GRACE_SECONDS,
                             sid |-> ACTIVE_SESSION.session_id]]
            /\ rebound' = FALSE
            /\ last' = Note("disconnect", "grace")
       ELSE /\ UNCHANGED <<ACTIVE_SESSION, grace, rebound>>
            /\ last' = Note("disconnect", "")
    /\ UNCHANGED <<env, sessions, cache, request, age, active_scans, scan, now, SCANNER_STATE, stopSet, nextId, lock, handler, thread,
                   monitor, cleanups>>

\* A start handler that does not look at the finger list.
any_finger_list(fq) == FALSE

\* handle_start_scan_session: `if not finger_queue` (597).
no_fingers(fq) == fq = <<>>

Creating == {c \in env.clients : handler[c].pc = "create"}

\* handle_start_scan_session up to the check made under state_lock (594-619).
StartReceive(c, fq) ==
    /\ c \in connected
    /\ handler[c].pc = "idle"
    /\ fq \in env.queues
    /\ IF no_fingers(fq)
       THEN /\ last' = Note("start", "No fingers specified")
            /\ UNCHANGED handler
       ELSE /\ lock = Free
            /\ IF session_already_active(ACTIVE_SESSION)
               THEN /\ last' = Note("start", "Another scan session is already in progress")
                    /\ UNCHANGED handler
               ELSE /\ nextId + Cardinality(Creating) \in env.sessions
                    /\ handler' = [handler EXCEPT ![c] =
                                      [pc |-> "create", fq |-> fq, ret |-> None]]
                    /\ last' = Note("start", "")
    /\ UNCHANGED <<env, sessions, cache, request, age, active_scans, scan, now, ACTIVE_SESSION, SCANNER_STATE, stopSet, nextId, lock,
                   connected, thread, monitor, grace, cleanups, rebound>>

\* handle_start_scan_session: `session_id = create_session(...)` (621-625).
StartCreate(c) ==
    /\ handler[c].pc = "create"
    /\ lock = Free
    /\ create_session(c, c, handler[c].fq)
    /\ handler' = [handler EXCEPT ![c].pc = "launch",
                                  ![c].ret = [id |-> nextId, ev |-> nextId]]
    /\ last' = Quiet
    /\ UNCHANGED <<env, sessions, cache, request, age, active_scans, scan, now, SCANNER_STATE, stopSet, lock, connected, thread, grace,
                   cleanups, rebound>>

\* handle_start_scan_session: the thread is stored, started and acknowledged (738-753).
StartLaunch(c) ==
    /\ handler[c].pc = "launch"
    /\ lock = Free
    /\ LET ret == handler[c].ret IN
        /\ ACTIVE_SESSION' = [ACTIVE_SESSION EXCEPT !.thread = ret.id]
        /\ thread' = [thread EXCEPT ![ret.id] =
                         [ pc |-> "start", ret |-> ret, room |-> c, fq |-> handler[c].fq,
                           stop |-> None, results |-> <<>>, complete |-> <<>> ]]
        /\ last' = Note("start", "session_started")
    /\ handler' = [handler EXCEPT ![c] = NoHandler]
    /\ UNCHANGED <<env, sessions, cache, request, age, active_scans, scan, now, SCANNER_STATE, stopSet, nextId, lock, connected, monitor,
                   grace, cleanups, rebound>>

\* handle_start_scan (legacy single-finger scan) as far as the session model
\* sees it: the scan thread reports a status through its ws_emit, which calls
\* update_scanner_state, which calls touch_session_activity and then writes
\* SCANNER_STATE.  scan_finger_loop_with_guidance is bound nowhere in app.py,
\* so the status that is reported is the error status of run_scan's except
\* branch; the scan id is a fresh uuid, no session's id.
LegacyScanStatus(c) ==
    /\ c \in connected
    /\ lock = Free
    /\ ACTIVE_SESSION' = touch_session_activity(ACTIVE_SESSION, now)
    /\ SCANNER_STATE' = [SCANNER_STATE EXCEPT !.scan_id = [id |-> 0, ev |-> None],
                                              !.status = "error"]
    /\ last' = Note("start_scan", "scan_started")
    /\ UNCHANGED <<env, sessions, cache, request, age, active_scans, scan, now, stopSet, nextId, lock, connected, handler, thread,
                   monitor, grace, cleanups, rebound>>

\* handle_start_scan: `len(active_scans) > 0` (448).
scan_in_progress(scans) == scans # {}

LegacyRest == <<env, sessions, cache, request, age, now, stopSet, nextId, lock, connected, handler, thread,
                monitor, grace, cleanups, rebound>>

\* handle_start_scan up to the end of its first `with state_lock` block
\* (437-459): the scan id is drawn, and the command is refused when a scan is
\* registered.
LegacyStartCheck(c) ==
    /\ c \in connected
    /\ scan.handler[c] = None
    /\ scan.next <= MaxScans
    /\ lock = Free
    /\ IF scan_in_progress(active_scans)
       THEN /\ scan' = [scan EXCEPT !.next = @ + 1]
            /\ last' = Note("start_scan", "Another scan is already in progress")
       ELSE /\ scan' = [scan EXCEPT !.next = @ + 1, !.handler[c] = scan.next]
            /\ last' = Note("start_scan", "")
    /\ UNCHANGED <<active_scans, ACTIVE_SESSION, SCANNER_STATE>>
    /\ UNCHANGED LegacyRest

\* handle_start_scan: the scan is registered in its second `with state_lock`
\* block (539-546), the scan thread is started and scan_started is answered
\* (548-553).
LegacyStartRegister(c) ==
    /\ scan.handler[c] # None
    /\ lock = Free
    /\ active_scans' = active_scans \cup {scan.handler[c]}
    /\ scan' = [scan EXCEPT !.handler[c] = None, !.run[scan.handler[c]] = "start"]
    /\ last' = Note("start_scan", "scan_started")
    /\ UNCHANGED <<ACTIVE_SESSION, SCANNER_STATE>>
    /\ UNCHANGED LegacyRest

\* run_scan: the call of scan_finger_loop_with_guidance (505-510), a name that
\* app.py binds nowhere, raises into the except branch, whose ws_emit sends
\* the error status and stores it through update_scanner_state (523-530).
LegacyRunError(k) ==
    /\ scan.run[k] = "start"
    /\ lock = Free
    /\ ACTIVE_SESSION' = touch_session_activity(ACTIVE_SESSION, now)
    /\ SCANNER_STATE' = [SCANNER_STATE EXCEPT !.scan_id = [id |-> 0, ev |-> None],
                                              !.status = "error"]
    /\ scan' = [scan EXCEPT !.run[k] = "cleanup"]
    /\ last' = Note("scanner_status", "Scanner error")
    /\ UNCHANGED active_scans
    /\ UNCHANGED LegacyRest

\* run_scan: `if scan_id in active_scans: del active_scans[scan_id]` (531-533).
LegacyRunCleanup(k) ==
    /\ scan.run[k] = "cleanup"
    /\ lock = Free
    /\ active_scans' = active_scans \ {k}
    /\ scan' = [scan EXCEPT !.run[k] = "done"]
    /\ last' = Quiet
    /\ UNCHANGED <<ACTIVE_SESSION, SCANNER_STATE>>
    /\ UNCHANGED LegacyRest

\* handle_stop_scan: the stop event of a registered scan is set (574-579).
LegacyStop(c, k) ==
    /\ c \in connected
    /\ lock = Free
    /\ scan' = [scan EXCEPT !.stopped = IF k \in active_scans THEN @ \cup {k} ELSE @]
    /\ last' = Note("stop_scan", IF k \in active_scans THEN "stopped" ELSE "not found")
    /\ UNCHANGED <<active_scans, ACTIVE_SESSION, SCANNER_STATE>>
    /\ UNCHANGED LegacyRest

\* handle_cancel_scan_session
Cancel(c, provided) ==
    /\ c \in connected
    /\ provided \in env.ids
    /\ lock = Free
    /\ LET active == ACTIVE_SESSION.session_id IN
        IF active = None
        THEN /\ last' = Note("cancel", "No active session to cancel")
             /\ UNCHANGED <<ACTIVE_SESSION, stopSet, cleanups>>
        ELSE IF cancel_mismatch(provided, active)
        THEN /\ last' = Note("cancel", "Session ID mismatch")
             /\ UNCHANGED <<ACTIVE_SESSION, stopSet, cleanups>>
        ELSE /\ cleanups[active] < env.cancels
             /\ stopSet' = SignalStop(ACTIVE_SESSION, stopSet)
             /\ ACTIVE_SESSION' = CancelledSession(ACTIVE_SESSION)
             /\ cleanups' = [cleanups EXCEPT ![active] = @ + 1]
             /\ last' = Note("cancel", "session_cancelled")
    /\ UNCHANGED <<env, sessions, cache, request, age, active_scans, scan, now, SCANNER_STATE, nextId, lock, connected, handler, thread,
                   monitor, grace, rebound>>

-----------------------------------------------------------------------------
(* Session thread: run_session, and the capture loop driver it calls *)

Others == <<env, sessions, cache, request, age, active_scans, scan, now, nextId, lock, connected, handler, monitor, grace, rebound>>

\* run_session: `stop_event = ACTIVE_SESSION["stop_event"]` (684-685), whatever
\* the registry holds by then, and the call of scan_finger_session (687-692).
\* app.py binds the name scan_finger_session nowhere: as the module stands the
\* call raises NameError into the except branch.  With the capture loop driver
\* of the specification bound to the name the thread enters the loop, unless it
\* was handed None (the registry was wiped before it was read), on which the
\* driver raises at its first poll of the stop event.
RunGetStop(s) ==
    /\ thread[s].pc = "start"
    /\ lock = Free
    /\ \E pc \in IF ACTIVE_SESSION.stop_event = None THEN {"except"}
                 ELSE {"loop", "except"} :
          thread' = [thread EXCEPT ![s].stop = ACTIVE_SESSION.stop_event, ![s].pc = pc]
    /\ last' = Quiet
    /\ UNCHANGED <<ACTIVE_SESSION, SCANNER_STATE, stopSet, cleanups>>
    /\ UNCHANGED Others

InLoop(s) == thread[s].pc = "loop"
NextFinger(s) == thread[s].fq[Len(thread[s].results) + 1]

\* scan_finger_session: a preview event of the finger being captured.
DriverPreview(s) ==
    /\ InLoop(s)
    /\ lock = Free
    /\ SCANNER_STATE.last_preview_frame_b64 # s
    /\ SCANNER_STATE' = ws_emit_state(SCANNER_STATE, "preview_frame", None, "", s)
    /\ last' = Quiet
    /\ UNCHANGED <<ACTIVE_SESSION, stopSet, thread, cleanups>>
    /\ UNCHANGED Others

\* scan_finger_session: the terminal success event of one finger; its artifact
\* joins the results, which are returned once the queue is exhausted.
DriverSuccess(s) ==
    /\ InLoop(s)
    /\ lock = Free
    /\ SCANNER_STATE' = ws_emit_state(SCANNER_STATE, "scanner_status", thread[s].ret,
                                      "success", None)
    /\ thread' = [thread EXCEPT ![s].results = Append(@, NextFinger(s)),
                                ![s].pc = IF Len(thread[s].results) + 1 = Len(thread[s].fq)
                                          THEN "return" ELSE "loop"]
    /\ last' = Quiet
    /\ UNCHANGED <<ACTIVE_SESSION, stopSet, cleanups>>
    /\ UNCHANGED Others

\* scan_finger_session: the terminal failure event of one finger; the driver
\* raises into run_session.
DriverFailure(s) ==
    /\ InLoop(s)
    /\ lock = Free
    /\ SCANNER_STATE' = ws_emit_state(SCANNER_STATE, "scanner_status", thread[s].ret,
                                      "error", None)
    /\ thread' = [thread EXCEPT ![s].pc = "except"]
    /\ last' = Quiet
    /\ UNCHANGED <<ACTIVE_SESSION, stopSet, cleanups>>
    /\ UNCHANGED Others

\* scan_finger_session: the stop event is observed at a safe point; the driver
\* emits the cancelled event and returns what it captured so far.
DriverCancelled(s) ==
    /\ InLoop(s)
    /\ thread[s].stop \in stopSet
    /\ lock = Free
    /\ SCANNER_STATE' = ws_emit_state(SCANNER_STATE, "scanner_status", thread[s].ret,
                                      "cancelled", None)
    /\ thread' = [thread EXCEPT ![s].pc = "return"]
    /\ last' = Quiet
    /\ UNCHANGED <<ACTIVE_SESSION, stopSet, cleanups>>
    /\ UNCHANGED Others

\* The capture loop after a successful capture: the success event is emitted
\* as in DriverSuccess and advance_to_next_finger() is called on the registry.
CaptureAndAdvance(s) ==
    /\ InLoop(s)
    /\ lock = Free
    /\ SCANNER_STATE' = ws_emit_state(SCANNER_STATE, "scanner_status", thread[s].ret,
                                      "success", None)
    /\ thread' = [thread EXCEPT ![s].results = Append(@, NextFinger(s)),
                                ![s].pc = IF Len(thread[s].results) + 1 = Len(thread[s].fq)
                                          THEN "return" ELSE "loop"]
    /\ ACTIVE_SESSION' = advance_to_next_finger(ACTIVE_SESSION, now)
    /\ last' = Note("advance", ToString(next_finger(ACTIVE_SESSION')))
    /\ UNCHANGED <<stopSet, cleanups>>
    /\ UNCHANGED Others

\* run_session after scan_finger_session returned: the results are stored under
\* state_lock (696-701), session_complete is emitted through ws_emit (703-708)
\* and the delayed_cleanup thread is started (710-716).
RunComplete(s) ==
    /\ thread[s].pc = "return"
    /\ lock = Free
    /\ ACTIVE_SESSION' =
          IF SessionIdEq(ACTIVE_SESSION.session_id, thread[s].ret)
          THEN [ACTIVE_SESSION EXCEPT !.captured_fingers = thread[s].results,
                                      !.status = "completed"]
          ELSE ACTIVE_SESSION
    /\ thread' = [thread EXCEPT ![s].pc = "done", ![s].complete = thread[s].results]
    /\ cleanups' = [cleanups EXCEPT ![s] = @ + 1]
    /\ last' = Note("session_complete", "")
    /\ UNCHANGED <<SCANNER_STATE, stopSet>>
    /\ UNCHANGED Others

\* run_session, except branch: the status is stored under state_lock (722-725)
\* and the error status is emitted through ws_emit (727-733).
RunError(s) ==
    /\ thread[s].pc = "except"
    /\ lock = Free
    /\ ACTIVE_SESSION' =
          IF SessionIdEq(ACTIVE_SESSION.session_id, thread[s].ret)
          THEN [ACTIVE_SESSION EXCEPT !.status = "error"]
          ELSE ACTIVE_SESSION
    /\ SCANNER_STATE' = ws_emit_state(SCANNER_STATE, "scanner_status", thread[s].ret,
                                      "error", None)
    /\ thread' = [thread EXCEPT ![s].pc = "cleanup"]
    /\ last' = Note("scanner_status", "Scanner error")
    /\ UNCHANGED <<stopSet, cleanups>>
    /\ UNCHANGED Others

\* run_session, except branch: cleanup_session() (735-736).
RunErrCleanup(s) ==
    /\ thread[s].pc = "cleanup"
    /\ lock = Free
    /\ cleanup_session
    /\ thread' = [thread EXCEPT ![s].pc = "done"]
    /\ last' = CleanupNote
    /\ UNCHANGED cleanups
    /\ UNCHANGED Others

-----------------------------------------------------------------------------
(* Reads *)

Reads == <<env, sessions, cache, request, age, active_scans, scan, now, ACTIVE_SESSION, SCANNER_STATE, stopSet, nextId, lock, connected,
           handler, thread, monitor, grace, cleanups, rebound>>

\* get_session_state: the snapshot is built under state_lock and returned.
GetSessionState ==
    /\ lock = Free
    /\ last' = Note("get_session_state", ToString(get_session_state(ACTIVE_SESSION)))
    /\ UNCHANGED Reads

\* A fallback read that hands the stored preview out once and drops it.
ScannerProgressConsumes ==
    /\ lock = Free
    /\ last' = Note("scanner_progress", ToString(scanner_progress(SCANNER_STATE)))
    /\ SCANNER_STATE' = [SCANNER_STATE EXCEPT !.last_preview_frame_b64 = None]
    /\ UNCHANGED <<env, sessions, cache, request, age, active_scans, scan, now, ACTIVE_SESSION, stopSet, nextId, lock, connected,
                   handler, thread, monitor, grace, cleanups, rebound>>

\* GET /api/scanner/progress: the response is built under state_lock.
ScannerProgress ==
    /\ lock = Free
    /\ last' = Note("scanner_progress", ToString(scanner_progress(SCANNER_STATE)))
    /\ UNCHANGED Reads

-----------------------------------------------------------------------------
(* Background units *)

\* delayed_cleanup of run_session and of handle_cancel_scan_session: the sleep
\* is over and cleanup_session() runs.
DelayedCleanup(s) ==
    /\ cleanups[s] > 0
    /\ lock = Free
    /\ cleanup_session
    /\ cleanups' = [cleanups EXCEPT ![s] = @ - 1]
    /\ last' = CleanupNote
    /\ UNCHANGED <<thread>>
    /\ UNCHANGED Others

\* A monitor pass that does not compare the registry's id with its own.
MonitorTickAnySession(m) ==
    /\ monitor[m].pc = "sleep"
    /\ now >= monitor[m].wake
    /\ lock = Free
    /\ monitor' =
          IF expiry_reason(ACTIVE_SESSION, now) # ""
          THEN [monitor EXCEPT ![m].pc = "expire",
                               ![m].reason = expiry_reason(ACTIVE_SESSION, now)]
          ELSE [monitor EXCEPT ![m].wake = now + CHECK_INTERVAL]
    /\ last' = Quiet
    /\ UNCHANGED <<env, sessions, cache, request, age, active_scans, scan, now, ACTIVE_SESSION, SCANNER_STATE, stopSet, nextId, lock,
                   connected, handler, thread, grace, cleanups, rebound>>

\* monitor_session_expiration: one pass of the loop up to the end of the
\* `with state_lock` block (253-276).
MonitorTick(m) ==
    /\ monitor[m].pc = "sleep"
    /\ now >= monitor[m].wake
    /\ lock = Free
    /\ monitor' =
          IF ACTIVE_SESSION.session_id # m
          THEN [monitor EXCEPT ![m].pc = "done"]
          ELSE IF expiry_reason(ACTIVE_SESSION, now) # ""
          THEN [monitor EXCEPT ![m].pc = "expire",
                               ![m].reason = expiry_reason(ACTIVE_SESSION, now)]
          ELSE [monitor EXCEPT ![m].wake = now + CHECK_INTERVAL]
    /\ last' = Quiet
    /\ UNCHANGED <<env, sessions, cache, request, age, active_scans, scan, now, ACTIVE_SESSION, SCANNER_STATE, stopSet, nextId, lock,
                   connected, handler, thread, grace, cleanups, rebound>>

\* monitor_session_expiration: session_expired is emitted and cleanup_session()
\* runs (278-288).
MonitorExpire(m) ==
    /\ monitor[m].pc = "expire"
    /\ lock = Free
    /\ cleanup_session
    /\ monitor' = [monitor EXCEPT ![m].pc = "done"]
    /\ last' = Note("session_expired", monitor[m].reason)
    /\ UNCHANGED <<env, sessions, cache, request, age, active_scans, scan, now, nextId, lock, connected, handler, thread, grace, cleanups,
                   rebound>>

\* grace_period_cleanup after its sleep: the `with state_lock` block (331-340).
\* When the grace period has expired the stop event is set and cleanup_session()
\* is called with state_lock still held; state_lock is a threading.Lock, which
\* its holder cannot acquire again, so the call never gets past its own
\* `with state_lock` and the timer stays there, holding the lock.
GraceFire(g) ==
    /\ grace[g].pc = "sleep"
    /\ now >= grace[g].wake
    /\ lock = Free
    /\ IF grace_expired(ACTIVE_SESSION, now)
       THEN /\ stopSet' = SignalStop(ACTIVE_SESSION, stopSet)
            /\ lock' = g
            /\ grace' = [grace EXCEPT ![g].pc = "cleanup"]
            /\ last' = Note("grace", "expired")
       ELSE /\ grace' = [grace EXCEPT ![g].pc = "done"]
            /\ last' = Note("grace", "not expired")
            /\ UNCHANGED <<stopSet, lock>>
    /\ UNCHANGED <<env, sessions, cache, request, age, active_scans, scan, now, ACTIVE_SESSION, SCANNER_STATE, nextId, connected, handler,
                   thread, monitor, cleanups, rebound>>

\* The clock moves to the next sampled instant.
Tick ==
    /\ \E t \in env.times :
          /\ t > now
          /\ \A u \in env.times : u > now => t <= u
          /\ now' = t
    /\ last' = Quiet
    /\ UNCHANGED <<env, sessions, cache, request, age, active_scans, scan, ACTIVE_SESSION, SCANNER_STATE, stopSet, nextId, lock, connected,
                   handler, thread, monitor, grace, cleanups, rebound>>

-----------------------------------------------------------------------------
(* Cloud workflow: SessionManager and SessionScopedCache *)

Edge == <<env, active_scans, scan, now, ACTIVE_SESSION, SCANNER_STATE, stopSet, nextId,
          lock, connected, handler, thread, monitor, grace, cleanups, rebound, last>>

\* A session dict is in SessionManager.sessions.
Listed(S, sid) == S[sid].listed

\* get_session: `is_expired` (147-160), with the clock read as the thresholds
\* the session's age has passed: 1 for MAX_DURATION, 2 for the two hours of
\* cleanup_expired.
is_expired(sid) == age[sid] >= 1

\* expire_session: the block under _lock (179-194).
expire_session(S, sid) ==
    IF Listed(S, sid) /\ S[sid].status = "active"
    THEN [S EXCEPT ![sid].status = "expired", ![sid].fingerprints = {}]
    ELSE S

\* SessionScopedCache.clear_session (94-105).
clear_session(C, sid) == C \ {sid}

\* get_session: the sessions after the call (142-170); the activity stamp it
\* refreshes is not kept.
get_session(S, sid) ==
    IF Listed(S, sid) /\ is_expired(sid) THEN expire_session(S, sid) ELSE S

\* get_session: the cache after the call; expire_session clears the session's
\* entries whether or not it found the session active (196-197).
get_session_cache(S, C, sid) ==
    IF Listed(S, sid) /\ is_expired(sid) /\ S[sid].status = "active"
    THEN clear_session(C, sid) ELSE C

\* `session and session.get("status") == "active"` on what get_session returned.
active_after_get(S, sid) ==
    Listed(S, sid) /\ get_session(S, sid)[sid].status = "active"

\* cleanup_expired (274-326): the sessions after it. Sessions older than two
\* hours are deleted and active ones past a threshold are expired.
cleanup_expired(S) ==
    [i \in DOMAIN S |->
        IF ~S[i].listed THEN S[i]
        ELSE IF age[i] >= 2 THEN [S[i] EXCEPT !.listed = FALSE]
        ELSE IF S[i].status = "active" /\ age[i] >= 1 THEN expire_session(S, i)[i]
        ELSE S[i]]

\* cleanup_expired: the cache after it. delete_session and expire_session clear
\* the entries of the sessions they touch, and _cleanup_orphaned_cache (336-344)
\* those of the ids no longer in SessionManager.sessions.
cleanup_expired_cache(S, C) ==
    {i \in C : /\ cleanup_expired(S)[i].listed
               /\ ~(S[i].status = "active" /\ age[i] >= 1)}

\* create_session (107-132): cleanup_expired, then the new session dict.
CloudCreate(sid) ==
    /\ sessions[sid].status = "none"
    /\ sessions' = [cleanup_expired(sessions) EXCEPT ![sid] =
                       [status |-> "active", listed |-> TRUE, fingerprints |-> {},
                        completed |-> FALSE]]
    /\ cache' = cleanup_expired_cache(sessions, cache)
    /\ UNCHANGED <<request, age>>
    /\ UNCHANGED Edge

\* The clock passes the next threshold of a session.
CloudAging(sid) ==
    /\ sessions[sid].status # "none"
    /\ age[sid] < 2
    /\ age' = [age EXCEPT ![sid] = @ + 1]
    /\ UNCHANGED <<sessions, cache, request>>
    /\ UNCHANGED Edge

\* get_session called by an endpoint that only reads (workflow_api).
GetSession(sid) ==
    /\ sessions' = get_session(sessions, sid)
    /\ cache' = get_session_cache(sessions, cache, sid)
    /\ sessions' # sessions
    /\ UNCHANGED <<request, age>>
    /\ UNCHANGED Edge

\* add_fingerprint: get_session and the test of the status (210-211).
AddFingerprintCheck(w, sid, f) ==
    /\ request[w] = NoRequest
    /\ sessions[sid].status # "none"
    /\ sessions' = get_session(sessions, sid)
    /\ cache' = get_session_cache(sessions, cache, sid)
    /\ request' = IF active_after_get(sessions, sid)
                  THEN [request EXCEPT ![w] =
                           [op |-> "add_fingerprint", sid |-> sid, finger |-> f]]
                  ELSE request
    /\ request' # request \/ sessions' # sessions
    /\ UNCHANGED age
    /\ UNCHANGED Edge

\* add_fingerprint: the block under _lock (213-216), on the dict fetched before.
AddFingerprintWrite(w) ==
    /\ request[w].op = "add_fingerprint"
    /\ sessions' = [sessions EXCEPT ![request[w].sid].fingerprints = @ \cup {request[w].finger},
                                    ![request[w].sid].listed = TRUE]
    /\ request' = [request EXCEPT ![w] = NoRequest]
    /\ UNCHANGED <<cache, age>>
    /\ UNCHANGED Edge

\* store_predictions: get_session and the test of the status (236-237).
StorePredictionsCheck(w, sid) ==
    /\ request[w] = NoRequest
    /\ sessions[sid].status # "none"
    /\ sessions' = get_session(sessions, sid)
    /\ cache' = get_session_cache(sessions, cache, sid)
    /\ request' = IF active_after_get(sessions, sid)
                  THEN [request EXCEPT ![w] =
                           [op |-> "store_predictions", sid |-> sid, finger |-> None]]
                  ELSE request
    /\ request' # request \/ sessions' # sessions
    /\ UNCHANGED age
    /\ UNCHANGED Edge

\* store_predictions: the block under _lock (240-250); the cache is left as it
\* is ("Cache clearing handled by workflow endpoint", 254).
StorePredictionsWrite(w) ==
    /\ request[w].op = "store_predictions"
    /\ sessions' = [sessions EXCEPT ![request[w].sid] =
                       [status |-> "completed", listed |-> TRUE, fingerprints |-> {},
                        completed |-> TRUE]]
    /\ request' = [request EXCEPT ![w] = NoRequest]
    /\ UNCHANGED <<cache, age>>
    /\ UNCHANGED Edge

\* delete_session (256-272).
DeleteSession(sid) ==
    /\ sessions[sid].listed
    /\ sessions' = [sessions EXCEPT ![sid].listed = FALSE]
    /\ cache' = clear_session(cache, sid)
    /\ UNCHANGED <<request, age>>
    /\ UNCHANGED Edge

\* cleanup_expired called on its own.
CleanupExpired ==
    /\ sessions' = cleanup_expired(sessions)
    /\ cache' = cleanup_expired_cache(sessions, cache)
    /\ sessions' # sessions \/ cache' # cache
    /\ UNCHANGED <<request, age>>
    /\ UNCHANGED Edge

\* GeminiService.generate_* called with a session_id: SessionScopedCache.set
\* stores the response under that id (cache_service 71-92).
CacheSet(sid) ==
    /\ sessions[sid].status # "none"
    /\ sid \notin cache
    /\ cache' = cache \cup {sid}
    /\ UNCHANGED <<sessions, request, age>>
    /\ UNCHANGED Edge

-----------------------------------------------------------------------------
(* Specifications *)

ThreadStep(s) ==
    \/ RunGetStop(s)
    \/ DriverPreview(s)
    \/ DriverSuccess(s)
    \/ DriverFailure(s)
    \/ DriverCancelled(s)
    \/ RunComplete(s)
    \/ RunError(s)
    \/ RunErrCleanup(s)

Background ==
    \/ \E s \in env.sessions : RunGetStop(s)
    \/ \E s \in env.sessions : DriverPreview(s)
    \/ \E s \in env.sessions : DriverSuccess(s)
    \/ \E s \in env.sessions : DriverFailure(s)
    \/ \E s \in env.sessions : DriverCancelled(s)
    \/ \E s \in env.sessions : RunComplete(s)
    \/ \E s \in env.sessions : RunError(s)
    \/ \E s \in env.sessions : RunErrCleanup(s)
    \/ \E s \in env.sessions : DelayedCleanup(s)
    \/ \E m \in env.sessions : MonitorTick(m)
    \/ \E m \in env.sessions : MonitorExpire(m)
    \/ \E g \in env.graces : GraceFire(g)

Commands ==
    \/ \E c \in env.clients : Connect(c)
    \/ \E c \in env.clients : ConnectReturn(c)
    \/ \E c \in env.clients : Disconnect(c)
    \/ \E c \in env.clients, fq \in env.queues : StartReceive(c, fq)
    \/ \E c \in env.clients : StartCreate(c)
    \/ \E c \in env.clients : StartLaunch(c)
    \/ \E c \in env.clients, p \in env.ids : Cancel(c, p)
    \/ \E c \in env.clients : LegacyScanStatus(c)

Next == Commands \/ Background \/ Tick

Spec == Init /\ [][Next]_vars

\* What the scheduler guarantees: a thread that can run does run, a handler
\* that was entered runs on, and time passes.  Clients owe nothing.
FairnessFor(nGrace) ==
    /\ \A s \in 1..MaxSessions :
          /\ WF_vars(ThreadStep(s))
          /\ WF_vars(DelayedCleanup(s))
          /\ WF_vars(MonitorTick(s))
          /\ WF_vars(MonitorExpire(s))
    /\ \A g \in 1..nGrace : WF_vars(GraceFire(g))
    /\ \A c \in 1..NumClients :
          WF_vars(ConnectReturn(c)) /\ WF_vars(StartCreate(c)) /\ WF_vars(StartLaunch(c))
    /\ WF_vars(Tick)

Fairness == FairnessFor(MaxGrace)

FairSpec == Init /\ [][Next]_vars /\ Fairness

ExpirySpec == InitExpiry /\ [][Next]_vars

FairExpirySpec == InitExpiry /\ [][Next]_vars /\ FairnessFor(ExpiryGrace)

\* The units of the module itself, without the capture loop driver: a session
\* thread that gets into the loop stays there.
NextStale ==
    \/ \E c \in env.clients : Connect(c)
    \/ \E c \in env.clients : ConnectReturn(c)
    \/ \E c \in env.clients : Disconnect(c)
    \/ \E c \in env.clients, fq \in env.queues : StartReceive(c, fq)
    \/ \E c \in env.clients : StartCreate(c)
    \/ \E c \in env.clients : StartLaunch(c)
    \/ \E c \in env.clients, p \in env.ids : Cancel(c, p)
    \/ \E s \in env.sessions : RunGetStop(s)
    \/ \E s \in env.sessions : RunError(s)
    \/ \E s \in env.sessions : RunErrCleanup(s)
    \/ \E s \in env.sessions : DelayedCleanup(s)
    \/ \E m \in env.sessions : MonitorTick(m)
    \/ \E m \in env.sessions : MonitorExpire(m)
    \/ \E g \in env.graces : GraceFire(g)
    \/ Tick

StaleSpec == InitStale /\ [][NextStale]_vars

\* Connections coming and going around one session whose thread fails.
NextReconnect ==
    \/ \E c \in env.clients : Connect(c)
    \/ \E c \in env.clients : ConnectReturn(c)
    \/ \E c \in env.clients : Disconnect(c)
    \/ \E c \in env.clients, fq \in env.queues : StartReceive(c, fq)
    \/ \E c \in env.clients : StartCreate(c)
    \/ \E c \in env.clients : StartLaunch(c)
    \/ \E s \in env.sessions : RunGetStop(s)
    \/ \E s \in env.sessions : RunError(s)
    \/ \E s \in env.sessions : RunErrCleanup(s)
    \/ \E g \in env.graces : GraceFire(g)
    \/ Tick

ReconnectSpec == InitReconnect /\ [][NextReconnect]_vars

\* The operations of the registry around one session: its thread advancing
\* through the queue, a cancel, and the two reads.
NextRegistry ==
    \/ \E c \in env.clients : Connect(c)
    \/ \E c \in env.clients : ConnectReturn(c)
    \/ \E c \in env.clients, fq \in env.queues : StartReceive(c, fq)
    \/ \E c \in env.clients : StartCreate(c)
    \/ \E c \in env.clients : StartLaunch(c)
    \/ \E c \in env.clients, p \in env.ids : Cancel(c, p)
    \/ \E s \in env.sessions : RunGetStop(s)
    \/ \E s \in env.sessions : DriverPreview(s)
    \/ \E s \in env.sessions : CaptureAndAdvance(s)
    \/ \E s \in env.sessions : RunComplete(s)
    \/ \E s \in env.sessions : RunError(s)
    \/ \E s \in env.sessions : RunErrCleanup(s)
    \/ \E s \in env.sessions : DelayedCleanup(s)
    \/ GetSessionState
    \/ ScannerProgress

RegistrySpec == InitRegistry /\ [][NextRegistry]_vars

NoIdSpec == InitNoId /\ [][NextRegistry]_vars

\* The deprecated per-finger commands on their own.
NextLegacy ==
    \/ \E c \in env.clients : Connect(c)
    \/ \E c \in env.clients : ConnectReturn(c)
    \/ \E c \in env.clients : LegacyStartCheck(c)
    \/ \E c \in env.clients : LegacyStartRegister(c)
    \/ \E k \in 1..MaxScans : LegacyRunError(k)
    \/ \E k \in 1..MaxScans : LegacyRunCleanup(k)
    \/ \E c \in env.clients, k \in 1..MaxScans : LegacyStop(c, k)

LegacySpec == InitLegacy /\ [][NextLegacy]_vars

\* The cloud workflow: the operations of SessionManager called by concurrent
\* request threads, the clock, and the AI service filling the cache.
NextCloud ==
    \/ \E sid \in DOMAIN sessions : CloudCreate(sid)
    \/ \E sid \in DOMAIN sessions : CloudAging(sid)
    \/ \E sid \in DOMAIN sessions : GetSession(sid)
    \/ \E w \in DOMAIN request, sid \in DOMAIN sessions, f \in 1..CloudFingers :
          AddFingerprintCheck(w, sid, f)
    \/ \E w \in DOMAIN request : AddFingerprintWrite(w)
    \/ \E w \in DOMAIN request, sid \in DOMAIN sessions : StorePredictionsCheck(w, sid)
    \/ \E w \in DOMAIN request : StorePredictionsWrite(w)
    \/ \E sid \in DOMAIN sessions : DeleteSession(sid)
    \/ CleanupExpired
    \/ \E sid \in DOMAIN sessions : CacheSet(sid)

CloudSpec == InitCloud /\ [][NextCloud]_vars

ScenarioSpec == InitScenario /\ [][Next]_vars

NextRace ==
    \/ \E c \in env.clients : Connect(c)
    \/ \E c \in env.clients : ConnectReturn(c)
    \/ \E c \in env.clients, fq \in env.queues : StartReceive(c, fq)
    \/ \E c \in env.clients : StartCreate(c)
    \/ \E c \in env.clients : StartLaunch(c)
    \/ \E c \in env.clients, p \in env.ids : Cancel(c, p)
    \/ \E s \in env.sessions : RunGetStop(s)
    \/ \E s \in env.sessions : DriverPreview(s)
    \/ \E s \in env.sessions : DriverSuccess(s)
    \/ \E s \in env.sessions : DriverFailure(s)
    \/ \E s \in env.sessions : DriverCancelled(s)
    \/ \E s \in env.sessions : RunComplete(s)
    \/ \E s \in env.sessions : RunError(s)
    \/ \E s \in env.sessions : RunErrCleanup(s)
    \/ \E s \in env.sessions : DelayedCleanup(s)

RaceSpec == InitRace /\ [][NextRace]_vars

-----------------------------------------------------------------------------
(* Claims *)

RegistryIdle ==
    /\ ACTIVE_SESSION.session_id = None
    /\ ACTIVE_SESSION.state = "idle"
    /\ ACTIVE_SESSION.captured_fingers = <<>>
    /\ ACTIVE_SESSION.last_preview_frame = None

\* C1: of the start_scan_session commands handled concurrently while no session
\* exists exactly one creates a session: a session held by the Registry is
\* never replaced by another start, so its id, participant, finger queue and
\* stop event (and with them its monitor) stay those of the one that was created.
C1_ExactlyOneStartCreates ==
    [][ ACTIVE_SESSION.session_id # None /\ ACTIVE_SESSION'.session_id # None
        => /\ ACTIVE_SESSION'.session_id = ACTIVE_SESSION.session_id
           /\ ACTIVE_SESSION'.participant_id = ACTIVE_SESSION.participant_id
           /\ ACTIVE_SESSION'.finger_queue = ACTIVE_SESSION.finger_queue
           /\ ACTIVE_SESSION'.stop_event = ACTIVE_SESSION.stop_event ]_vars

\* C2: at every instant at most one session thread is inside the capture loop
\* driving the scanner.
C2_OneThreadDrivesScanner ==
    Cardinality({s \in env.sessions : thread[s].pc = "loop"}) <= 1

\* A terminal condition of the session held by the Registry: its thread came
\* back from the capture loop (queue exhausted, cancelled or raised), a cancel
\* was accepted, its monitor found a timeout, or a grace timer found the grace
\* period expired.
Terminal ==
    /\ ACTIVE_SESSION.session_id # None
    /\ \/ thread[ACTIVE_SESSION.session_id].pc \in {"return", "except", "cleanup"}
       \/ cleanups[ACTIVE_SESSION.session_id] > 0
       \/ monitor[ACTIVE_SESSION.session_id].pc = "expire"
       \/ \E g \in env.graces : grace[g].pc = "cleanup"

\* C3: every termination path funnels through destroy: once the session has
\* reached a terminal condition, cleanup_session eventually runs and the
\* Registry is Idle with no captured fingers and no preview.
C3_TerminalLeadsToIdle == Terminal ~> RegistryIdle

\* A grace timer fired with no reconnect in between and found the period expired.
GraceExpired == \E g \in env.graces : grace[g].pc = "cleanup"

\* C5: a disconnect with no reconnect before the grace window elapses ends, once
\* the grace timer fires, with the stop event set and the session destroyed.
C5_GraceExpiryDestroys ==
    GraceExpired ~> (RegistryIdle /\ stopSet # {})

\* A call of cleanup_session that ran: from a delayed cleanup, from the except
\* branch of run_session or from the expiration monitor.
CleanupStep ==
    \E s \in env.sessions : DelayedCleanup(s) \/ RunErrCleanup(s) \/ MonitorExpire(s)

C6_ReconnectKeepsSession ==
    [][ /\ \A c \in env.clients :
              Connect(c) /\ ACTIVE_SESSION.session_id # None
                         /\ ACTIVE_SESSION.grace_period_active
              => /\ ACTIVE_SESSION'.session_id = ACTIVE_SESSION.session_id
                 /\ ACTIVE_SESSION'.current_index = ACTIVE_SESSION.current_index
                 /\ ACTIVE_SESSION'.captured_fingers = ACTIVE_SESSION.captured_fingers
                 /\ ~ACTIVE_SESSION'.grace_period_active
        /\ \A g \in env.graces :
              GraceFire(g) /\ rebound /\ ACTIVE_SESSION.session_id # None
              => UNCHANGED <<ACTIVE_SESSION, stopSet, lock>>
        /\ rebound' /\ ACTIVE_SESSION'.session_id # None
              => ~ACTIVE_SESSION'.grace_period_active ]_vars

\* The grace timer of a disconnect fired after the client had reconnected, and
\* the session is still there.
C6_TimerFiredAfterReconnect ==
    /\ last = Note("grace", "not expired")
    /\ rebound
    /\ ACTIVE_SESSION.session_id # None
    /\ ~ACTIVE_SESSION.grace_period_active
    /\ now >= GRACE_SECONDS

\* C7: a session started with the queue f1..f10 whose ten captures all succeed,
\* with no cancel, disconnect or timeout in between, ends in status
\* "completed" with a session_complete event that lists f1..f10 in order, and
\* once the delayed cleanup has run the Registry is Idle.
C7_TenCapturesComplete ==
    \A s \in env.sessions :
        /\ thread[s].pc = "done"
        /\ thread[s].results = FingerQueue(ScenarioQueueLen)
        /\ stopSet = {}
        /\ ACTIVE_SESSION.session_id = s
        => /\ thread[s].complete = FingerQueue(ScenarioQueueLen)
           /\ ACTIVE_SESSION.status = "completed"
           /\ cleanups[s] > 0

\* C8: a cancel that carries the id of the active session sets the stop event,
\* sets the status to "cancelled", emits session_cancelled and schedules a
\* delayed cleanup; when that cleanup has run the Registry is Idle and holds no
\* captured fingers.
C8_CancelAccepted ==
    [][ /\ \A c \in env.clients, p \in env.ids :
              Cancel(c, p) /\ p # None /\ p = ACTIVE_SESSION.session_id
              => /\ ACTIVE_SESSION.stop_event \in stopSet'
                 /\ ACTIVE_SESSION'.status = "cancelled"
                 /\ ACTIVE_SESSION'.session_id = p
                 /\ last' = Note("cancel", "session_cancelled")
                 /\ cleanups'[p] = cleanups[p] + 1
        /\ \A s \in env.sessions :
              DelayedCleanup(s) /\ ACTIVE_SESSION.status = "cancelled"
              => RegistryIdle' /\ ACTIVE_SESSION'.captured_fingers = <<>> ]_vars

\* The cancel of the scenario: accepted while the driver is on the fifth finger
\* of ten.
C8_CancelledAtFour ==
    /\ last = Note("cancel", "session_cancelled")
    /\ ACTIVE_SESSION.session_id # None
    /\ ACTIVE_SESSION.status = "cancelled"
    /\ ACTIVE_SESSION.stop_event \in stopSet
    /\ thread[ACTIVE_SESSION.session_id].pc = "loop"
    /\ Len(thread[ACTIVE_SESSION.session_id].results) = 4
    /\ Len(ACTIVE_SESSION.finger_queue) = ScenarioQueueLen

Unanswered == <<env, sessions, cache, request, age, active_scans, scan, now, ACTIVE_SESSION, SCANNER_STATE, stopSet, nextId, lock, connected,
                handler, thread, monitor, grace, cleanups, rebound>>

\* C9: a cancel that carries an id other than that of the active session is
\* answered with "Session ID mismatch" and changes nothing: the session, its
\* stop event and the scheduled cleanups are as before.
C9_MismatchedCancelRejected ==
    [][ \A c \in env.clients, p \in env.ids :
           Cancel(c, p) /\ ACTIVE_SESSION.session_id # None
                        /\ p # None /\ p # ACTIVE_SESSION.session_id
           => /\ last' = Note("cancel", "Session ID mismatch")
              /\ UNCHANGED Unanswered ]_vars

\* A cancel with a foreign id was rejected while a session was running.
C9_MismatchAnswered ==
    /\ last = Note("cancel", "Session ID mismatch")
    /\ ACTIVE_SESSION.session_id # None
    /\ ACTIVE_SESSION.status = "unset"
    /\ stopSet = {}

\* C10: a start_scan_session received while a session is active is answered
\* with "Another scan session is already in progress" and changes nothing: no
\* field of the session changes and no handler goes on to create a session, a
\* thread or a monitor.
C10_StartWhileActiveRejected ==
    [][ \A c \in env.clients, fq \in env.queues :
           StartReceive(c, fq) /\ fq # <<>> /\ ACTIVE_SESSION.session_id # None
           => /\ last' = Note("start", "Another scan session is already in progress")
              /\ UNCHANGED Unanswered ]_vars

\* A start was rejected because a session was in progress.
C10_StartRejected ==
    /\ last = Note("start", "Another scan session is already in progress")
    /\ ACTIVE_SESSION.session_id # None
    /\ nextId \in env.sessions

\* C11: the id a session thread carries is the id the Registry holds for its
\* session: when the thread comes back from the capture loop and the Registry
\* still holds the session it was started for, its id re-check recognises the
\* session and the results are stored with status "completed".
C11_ThreadRecognisesItsSession ==
    [][ \A s \in env.sessions :
           RunComplete(s) /\ ACTIVE_SESSION.session_id = thread[s].ret.id
           => /\ ACTIVE_SESSION'.captured_fingers = thread[s].results
              /\ ACTIVE_SESSION'.status = "completed" ]_vars

\* The session held by the Registry is past the absolute lifetime.
Overdue ==
    /\ ACTIVE_SESSION.session_id # None
    /\ now - ACTIVE_SESSION.created_at > ABSOLUTE_TIMEOUT

\* C12: a session whose created_at is past the absolute lifetime is destroyed,
\* however recent its last activity is.
C12_AbsoluteLifetimeDestroys == Overdue ~> RegistryIdle

\* The session held by the Registry is idle for longer than the inactivity
\* timeout and still within its absolute lifetime.
Inactive ==
    /\ ACTIVE_SESSION.session_id # None
    /\ now - ACTIVE_SESSION.last_activity_time > INACTIVITY_TIMEOUT
    /\ now - ACTIVE_SESSION.created_at <= ABSOLUTE_TIMEOUT

\* C13: a session that is idle for longer than the inactivity timeout while
\* still within its absolute lifetime is destroyed, and the monitor that
\* finds it so gives INACTIVITY_TIMEOUT as the reason of session_expired.
C13_InactivityDestroys ==
    /\ Inactive ~> (RegistryIdle \/ Overdue)
    /\ [][ \A m \in env.sessions :
              MonitorTick(m) /\ Inactive /\ ACTIVE_SESSION.session_id = m
              => /\ monitor'[m].pc = "expire"
                 /\ monitor'[m].reason = "INACTIVITY_TIMEOUT" ]_vars

\* An outbound emission of the session thread through ws_emit.
SessionEmit(s) ==
    DriverPreview(s) \/ DriverSuccess(s) \/ DriverFailure(s) \/ DriverCancelled(s)
    \/ RunComplete(s) \/ RunError(s)

\* C14: every cancel command handled while a session exists and every outbound
\* emission of the session thread of the active session sets
\* last_activity_time to the current time, and no tick of a monitor or of a
\* grace timer changes it while the session stays.
C14_ActivityTouched ==
    [][ /\ \A c \in env.clients, p \in env.ids :
              Cancel(c, p) /\ ACTIVE_SESSION.session_id # None
              => ACTIVE_SESSION'.last_activity_time = now
        /\ \A s \in env.sessions :
              SessionEmit(s) /\ ACTIVE_SESSION.session_id = s
              => ACTIVE_SESSION'.last_activity_time = now
        /\ \A m \in env.sessions, g \in env.graces :
              (MonitorTick(m) \/ GraceFire(g))
              => ACTIVE_SESSION'.last_activity_time = ACTIVE_SESSION.last_activity_time
       ]_vars

\* C15: the expiration monitor bound to a session only ever expires that
\* session: when it emits session_expired and calls cleanup_session while the
\* Registry holds a later session, that session and its stop event are left
\* alone.
C15_MonitorExpiresOnlyItsSession ==
    [][ \A m \in env.sessions :
           MonitorExpire(m) /\ ACTIVE_SESSION.session_id \notin {None, m}
           => /\ ACTIVE_SESSION' = ACTIVE_SESSION
              /\ stopSet' = stopSet ]_vars

\* C16: a cleanup issued on behalf of a session (the delayed cleanup of its
\* completion or of its cancel, or the cleanup of its error path) never wipes a
\* later session that the Registry holds when the cleanup runs.
C16_CleanupWipesOnlyItsSession ==
    [][ \A s \in env.sessions :
           (DelayedCleanup(s) \/ RunErrCleanup(s))
              /\ ACTIVE_SESSION.session_id \notin {None, s}
           => /\ ACTIVE_SESSION' = ACTIVE_SESSION
              /\ stopSet' = stopSet ]_vars

\* C17: a grace timer started by a disconnect during one session never sets
\* the stop event of a later session, nor sets about destroying it.
C17_GraceTimerSparesLaterSession ==
    [][ \A g \in env.graces :
           GraceFire(g) /\ ACTIVE_SESSION.session_id \notin {None, grace[g].sid}
           => /\ stopSet' = stopSet
              /\ lock' = lock
              /\ grace'[g].pc = "done" ]_vars

\* The state of the session as the Registry records it: the "state" key says
\* idle or active, and the "status" key, once written, names the terminal
\* state of the session.
SessionState ==
    IF ACTIVE_SESSION.state = "idle" THEN "idle"
    ELSE IF ACTIVE_SESSION.status = "unset" THEN "active"
    ELSE ACTIVE_SESSION.status

\* The transition table: Idle -> Active -> {Completed | Cancelled | Error} ->
\* Idle; cleanup_session may reset any state to Idle, and a rejected request
\* leaves the state as it is.
LegalTransition(from, to) ==
    \/ to = from
    \/ to = "idle"
    \/ from = "idle" /\ to = "active"
    \/ from = "active" /\ to \in {"completed", "cancelled", "error"}

\* C18: the session state only moves along the transition table: a session
\* starts Active, and once it is Cancelled or Error it does not become
\* Completed or any other terminal state.
C18_StateMovesAlongTable ==
    [][ LegalTransition(SessionState, SessionState') ]_vars

C20_CompleteOnlyWhenAllCaptured ==
    [][ \A s \in env.sessions :
           RunComplete(s) => thread'[s].complete = thread[s].fq ]_vars

\* C21: every scanner_status emission of the session thread of the active
\* session leaves its payload in the Registry's last_status, and every
\* preview_frame emission leaves the frame in last_preview_frame, so that a
\* reconnect replays the most recent emission.
C21_EmissionStoredInRegistry ==
    [][ \A s \in env.sessions :
           /\ (DriverSuccess(s) \/ DriverFailure(s) \/ DriverCancelled(s) \/ RunError(s))
                 /\ ACTIVE_SESSION.session_id = s
              => ACTIVE_SESSION'.last_status # None
           /\ DriverPreview(s) /\ ACTIVE_SESSION.session_id = s
              => ACTIVE_SESSION'.last_preview_frame # None ]_vars

\* C24: no unit holds state_lock while it performs a blocking hardware or
\* network call.  The connect handler is sending its replies to the socket in
\* exactly the states between Connect and ConnectReturn, so it must not own
\* the lock in any of them.
C24_NoLockAcrossEmission ==
    \A c \in env.clients : lock # Holding(c)

\* C22: a connect that finds a session in the registry binds the session to
\* the connecting socket, clears the pending grace period, keeps the session,
\* and sends back the session with the stored last status and last preview
\* when they are set.
C22_ConnectRebindsAndReplays ==
    [][ \A c \in env.clients :
           Connect(c) /\ ACTIVE_SESSION.session_id # None
           => /\ ACTIVE_SESSION'.socket_sid = c
              /\ ~ACTIVE_SESSION'.grace_period_active
              /\ ACTIVE_SESSION'.session_id = ACTIVE_SESSION.session_id
              /\ last' = Note("connect", Resent(ACTIVE_SESSION)) ]_vars

\* A session started on one socket is bound to another one that connected
\* during the grace period, whose timer is still asleep.
C22_ReboundDuringGrace ==
    /\ ACTIVE_SESSION.session_id # None
    /\ last = Note("connect", "session_started")
    /\ ~ACTIVE_SESSION.grace_period_active
    /\ ACTIVE_SESSION.socket_sid \in connected
    /\ thread[ACTIVE_SESSION.session_id].room \notin {None, ACTIVE_SESSION.socket_sid}
    /\ \E g \in env.graces : grace[g].pc = "sleep"

\* C23: an event emitted by the session thread of the active session goes to
\* the socket that the registry holds as bound at that moment, also after a
\* reconnect has bound another socket.
C23_EmitsToBoundSocket ==
    [][ \A s \in env.sessions :
           SessionEmit(s) /\ ACTIVE_SESSION.session_id = s
           => thread[s].room = ACTIVE_SESSION.socket_sid ]_vars

\* C25: a stop event that is set stays set, and the session thread keeps the
\* reference it read, so an event the thread sees set is seen set in every
\* later read, also once cleanup_session has dropped it from the registry.
C25_StopEventStaysSet ==
    [][ /\ stopSet \subseteq stopSet'
        /\ \A s \in env.sessions :
              thread[s].stop # None /\ thread[s].stop \in stopSet
              => thread'[s].stop = thread[s].stop /\ thread'[s].stop \in stopSet' ]_vars

\* The thread is in its loop with a set stop event that the registry has
\* already dropped.
C25_SetEventOutlivesRegistry ==
    \E s \in env.sessions :
       /\ thread[s].pc = "loop"
       /\ thread[s].stop # None /\ thread[s].stop \in stopSet
       /\ ACTIVE_SESSION.session_id = None
       /\ ACTIVE_SESSION.stop_event = None

\* C26: on every terminal path the session thread emits its terminal event
\* and leaves the wipe of the registry to a cleanup scheduled after a delay:
\* no step of the thread itself empties the registry.
C26_ThreadLeavesDestroyToDelayedCleanup ==
    [][ \A s \in env.sessions :
           ThreadStep(s) /\ ACTIVE_SESSION.session_id # None
           => ACTIVE_SESSION'.session_id # None ]_vars

\* C27: when the session thread catches an exception while its session is the
\* active one, the session's state becomes Error (and the error status is
\* emitted by the same step).
C27_ExceptionSetsError ==
    [][ \A s \in env.sessions :
           RunError(s) /\ ACTIVE_SESSION.session_id = s
           => /\ ACTIVE_SESSION'.status = "error"
              /\ last' = Note("scanner_status", "Scanner error") ]_vars

C29_IndexWithinQueue ==
    /\ [](ACTIVE_SESSION.current_index \in 0..Len(ACTIVE_SESSION.finger_queue))
    /\ [][ /\ ACTIVE_SESSION.session_id # None
              /\ ACTIVE_SESSION'.session_id = ACTIVE_SESSION.session_id
              => ACTIVE_SESSION'.current_index >= ACTIVE_SESSION.current_index
           /\ \A s \in env.sessions :
                 CaptureAndAdvance(s)
                 => last'.reply = ToString(next_finger(ACTIVE_SESSION')) ]_vars

\* The contents captured_fingers may have: every sequence of up to
\* MaxArtifacts artifacts.
Artifacts == {"imgA", "imgB"}
CapturedSamples == UNION { [1..n -> Artifacts] : n \in 0..MaxArtifacts }
WithCaptured(a) == [ACTIVE_SESSION EXCEPT !.captured_fingers = a]

\* C30: the snapshot of the registry and the fallback response carry status
\* fields, counts and the last preview only: they have exactly those keys, the
\* snapshot is the same for any two contents of captured_fingers of the same
\* length, and what a read returns is that snapshot.
C30_SnapshotsHideArtifacts ==
    /\ \A a1, a2 \in CapturedSamples :
          Len(a1) = Len(a2)
          => get_session_state(WithCaptured(a1)) = get_session_state(WithCaptured(a2))
    /\ DOMAIN get_session_state(ACTIVE_SESSION)
          = {"session_id", "state", "current_finger", "progress", "captured_count"}
    /\ DOMAIN scanner_progress(SCANNER_STATE)
          = {"scan_id", "status", "last_preview_frame_b64"}
    /\ last.op = "get_session_state"
          => last.reply = ToString(get_session_state(ACTIVE_SESSION))
    /\ last.op = "scanner_progress"
          => last.reply = ToString(scanner_progress(SCANNER_STATE))

\* The snapshot is read while the thread of the active session holds a
\* captured artifact and a preview frame is stored.
C30_SnapshotReadAfterCapture ==
    /\ last.op = "get_session_state"
    /\ SCANNER_STATE.last_preview_frame_b64 # None
    /\ \E s \in env.sessions :
          ACTIVE_SESSION.session_id = s /\ Len(thread[s].results) > 0

\* C31: a fallback status read (GET /api/scanner/progress) leaves every field
\* of the registry and of the fallback snapshot, and every other unit, as it
\* found them; only the response it hands out is new.
C31_FallbackReadMutatesNothing ==
    [][ ScannerProgress
        => /\ UNCHANGED <<ACTIVE_SESSION, SCANNER_STATE, stopSet, lock, thread, monitor,
                          grace, cleanups, connected, handler>>
           /\ last' = Note("scanner_progress", ToString(scanner_progress(SCANNER_STATE))) ]_vars

\* The fallback read has answered with a stored preview while a session is
\* active, and the preview is still stored.
C31_FallbackReadWithPreview ==
    /\ last.op = "scanner_progress"
    /\ ACTIVE_SESSION.session_id # None
    /\ SCANNER_STATE.last_preview_frame_b64 # None
    /\ last.reply = ToString(scanner_progress(SCANNER_STATE))

\* C33: state_lock never stays held: whenever a unit holds it, the lock is
\* free again later, so that no unit waits for it forever.
C33_LockEventuallyReleased ==
    (lock # Free) ~> (lock = Free)

\* C34: once a session is destroyed the fallback snapshot holds no preview
\* frame that session produced, even when its thread has not exited yet and
\* still emits.
C34_NoPreviewOfDestroyedSession ==
    \A s \in DOMAIN thread :
        (thread[s].pc # "none" /\ ACTIVE_SESSION.session_id # s) =>
            SCANNER_STATE.last_preview_frame_b64 # s

\* C35: a cancel that carries no session id, handled while a session is
\* active, does what a cancel with the right id does: the stop event of the
\* active session is set, the session is marked cancelled, session_cancelled
\* is answered and a delayed cleanup is scheduled.
C35_CancelWithoutIdAccepted ==
    [][ \A c \in env.clients :
           Cancel(c, None) /\ ACTIVE_SESSION.session_id # None
           => /\ ACTIVE_SESSION.stop_event # None => ACTIVE_SESSION.stop_event \in stopSet'
              /\ ACTIVE_SESSION'.status = "cancelled"
              /\ ACTIVE_SESSION'.session_id = ACTIVE_SESSION.session_id
              /\ cleanups'[ACTIVE_SESSION.session_id] = cleanups[ACTIVE_SESSION.session_id] + 1
              /\ last' = Note("cancel", "session_cancelled") ]_vars

\* A cancel without id was accepted: the thread of the session is in its loop
\* with its stop event set and the session, still in the registry, is marked
\* cancelled.
C35_CancelledWithoutId ==
    /\ env.ids = {None}
    /\ last = Note("cancel", "session_cancelled")
    /\ ACTIVE_SESSION.status = "cancelled"
    /\ \E s \in env.sessions :
          /\ ACTIVE_SESSION.session_id = s
          /\ thread[s].pc = "loop"
          /\ thread[s].stop \in stopSet
          /\ cleanups[s] > 0

\* C36: a start command with an empty finger list is answered with the error
\* status "No fingers specified" and changes nothing else: no session is
\* created or left pending, no thread and no monitor is started, and an idle
\* registry stays idle.
C36_EmptyStartRejected ==
    [][ \A c \in env.clients :
           StartReceive(c, <<>>)
           => /\ last' = Note("start", "No fingers specified")
              /\ UNCHANGED <<ACTIVE_SESSION, SCANNER_STATE, stopSet, nextId, handler,
                             thread, monitor, cleanups>>
              /\ RegistryIdle => RegistryIdle' ]_vars

\* The empty start was answered on a module that has never held a session.
C36_EmptyStartAnswered ==
    /\ last = Note("start", "No fingers specified")
    /\ RegistryIdle
    /\ nextId = 1
    /\ \A c \in env.clients : handler[c].pc = "idle"
    /\ \A s \in env.sessions : thread[s].pc = "none" /\ monitor[s].pc = "none"

\* C37: a monitor pass on its own session that finds the session older than
\* ABSOLUTE_TIMEOUT and idle for more than INACTIVITY_TIMEOUT decides to
\* expire it for MAX_LIFETIME_REACHED, and the monitor then emits one
\* session_expired with that reason, runs cleanup_session and ends.
C37_BothExceededReportsLifetime ==
    [][ \A m \in env.sessions :
           /\ MonitorTick(m) /\ ACTIVE_SESSION.session_id = m
                 /\ now - ACTIVE_SESSION.created_at > ABSOLUTE_TIMEOUT
                 /\ now - ACTIVE_SESSION.last_activity_time > INACTIVITY_TIMEOUT
              => monitor'[m].pc = "expire" /\ monitor'[m].reason = "MAX_LIFETIME_REACHED"
           /\ MonitorExpire(m)
              => /\ last' = Note("session_expired", monitor[m].reason)
                 /\ monitor'[m].pc = "done"
                 /\ ACTIVE_SESSION'.session_id = None
           /\ monitor[m].pc = "done" => monitor'[m] = monitor[m] ]_vars

\* A pass has just decided to expire a session with both thresholds exceeded.
C37_BothExceededDecided ==
    \E m \in env.sessions :
       /\ monitor[m].pc = "expire"
       /\ monitor[m].reason = "MAX_LIFETIME_REACHED"
       /\ ACTIVE_SESSION.session_id = m
       /\ now - ACTIVE_SESSION.created_at > ABSOLUTE_TIMEOUT
       /\ now - ACTIVE_SESSION.last_activity_time > INACTIVITY_TIMEOUT

\* C38: active_scans never holds more than one scan, and a start_scan handled
\* while a scan is registered, or while another start_scan is between its
\* check and its registration, is answered with "Another scan is already in
\* progress" and goes no further.
C38_OneLegacyScan ==
    /\ [](Cardinality(active_scans) <= 1)
    /\ [][ \A c \in env.clients :
              LegacyStartCheck(c)
                 /\ (active_scans # {} \/ \E d \in env.clients : scan.handler[d] # None)
              => /\ last' = Note("start_scan", "Another scan is already in progress")
                 /\ scan'.handler[c] = None ]_vars

\* C39: under every interleaving of add_fingerprint with expire_session and
\* store_predictions, a cloud session whose status is expired or completed
\* holds no fingerprints.
C39_ClosedSessionHoldsNoFingerprints ==
    \A sid \in DOMAIN sessions :
        sessions[sid].status \in {"expired", "completed"} =>
            sessions[sid].fingerprints = {}

\* C40: once a cloud session is completed or expired, or has been deleted, the
\* AI response cache holds no entry for its id.
C40_ClosedSessionHasNoCache ==
    \A sid \in DOMAIN sessions :
        (sessions[sid].status \in {"expired", "completed"} \/ ~sessions[sid].listed) =>
            sid \notin cache

====
